---- MODULE Spec2Model ----
(***************************************************************************)
(* Temperatur.nu reporter for the ESP32-C3 (Temperatur_reporter_esp32.ino):*)
(* the device lifecycle - first-boot detection, the credential store in    *)
(* flash, boot into access-point or station mode, the main loop with its   *)
(* link check, upload timer and reporter, and the on-device web server.    *)
(*                                                                         *)
(* Time.  millis() and every "unsigned long" of the sketch are 32 bits    *)
(* wide on the ESP32-C3.  TLC's integers are 32-bit signed, so the clock   *)
(* is counted in ticks of 4 ms: a 32-bit millisecond value v that is a     *)
(* multiple of 4 is held as v/4, and arithmetic modulo 2^32 ms is          *)
(* arithmetic modulo 2^30 ticks.  Every duration of the sketch (100 ms,    *)
(* 500 ms, 30 s, 60 s, 180 s) is a whole number of ticks, so sums,         *)
(* differences, wraparound and comparisons are exactly those of the code.  *)
(***************************************************************************)
EXTENDS Integers, Sequences, FiniteSets, TLC

\* ------------------------------------------------------------ constants
\* 2^32 ms, the range of unsigned long / millis(), in ticks (2^30).
ClockMod == 1073741824
\* 1000 ms in ticks: the factor of "intervalTimeS * 1000" and "WIFI_TIMEOUT * 1000".
TicksPerSecond == 250
\* delay(100) at the end of loop() and at the start of setup(), in ticks.
DelayTicks == 25
\* delay(500) between two polls of WiFi.status() in connectToWiFi, in ticks.
PollTicks == 125

DATA_SEND_INTERVAL == 180
DATA_SEND_SHORT_INTERVAL == 60
WIFI_TIMEOUT == 30
HTTP_CODE_OK == 200

\* Temperatures are held in tenths of a degree Celsius (21.5 is 215), so
\* that the order of the floats is the order of the integers.
\* DEVICE_DISCONNECTED_C (-127), what getTempCByIndex gives for a sensor
\* that does not answer.
DEVICE_DISCONNECTED_C == -1270
\* The literal -127.0 getTemperature returns for "no reading".
InvalidTemperature == -1270

AP_SSID == "TEMP-Setup"
AP_PASSWORD == "12345678"

\* ---------------------------------------------------------------- bounds
\* The clock of one boot session is followed for this many half minutes (and
\* the four seconds more that leave room for setup's delay and a timeout).
MaxHalfMinutes == 9
MaxMillis == MaxHalfMinutes * 30 * TicksPerSecond + 4 * TicksPerSecond
\* The timer on its own is followed from 240 s before the clock wraps for
\* this many half minutes (so until 240 s after the wrap).
MaxTimerHalfMinutes == 16
MaxTimerSpan == MaxTimerHalfMinutes * 30 * TicksPerSecond

\* connectToWiFi on its own: the radio reports connected at any poll up to
\* this one, which lies beyond the timeout.
MaxPolls == 62
\* ... and the attempt begins up to this many polls of 500 ms before the
\* clock wraps.
MaxStartPolls == 64

\* Idle iterations of loop() (no request, link up, timer not due) that pass
\* between two iterations the model looks at: runs of 30 s and of 60 s.
IdleRuns == {300, 600}
\* The same for the timer on its own, with a run of 10 s as well.
TimerRuns == {100} \cup IdleRuns
\* Poll of connectToWiFi at which the radio reports connected: at once, at the
\* last poll before the timeout, or not within the attempt.
ConnectUpAt == {0, 60, 100}

\* What one sensor on the bus reads: disconnected, -5.0, 19.2 or 21.5 degrees.
Readings == {DEVICE_DISCONNECTED_C, -50, 192, 215}
\* The bus carries up to this many sensors.
MaxSensors == 3
\* getTempCByIndex(0), (1), ... of every bus of up to MaxSensors sensors.
Buses == UNION {[1..n -> Readings] : n \in 0..MaxSensors}
\* The buses met by the device as a whole: none, one sensor (disconnected or
\* not), and three sensors with the disconnected one first or in the middle.
BusSamples ==
  {<< >>, << DEVICE_DISCONNECTED_C >>, << 192 >>,
   << DEVICE_DISCONNECTED_C, 215, 192 >>, << 215, DEVICE_DISCONNECTED_C, 192 >>}

\* __DATE__ " " __TIME__ of the firmware builds that get flashed.
CompileTimes == {"Nov  1 2025 10:00:00", "Nov  2 2025 11:30:00"}

\* Network names and secrets a user types into the setup form.
Ssids == {"", "Home"}
Passwords == {"", "secret1"}

\* http.GET() results: a transport failure (HTTPC_ERROR_CONNECTION_REFUSED = -1),
\* 200, another 2xx status and a client error.
HttpCodes == {-1, 200, 204, 404}

\* ------------------------------------------------------- 32-bit arithmetic
Add32(a, b) == (a + b) % ClockMod
Sub32(a, b) == (a - b) % ClockMod

\* ------------------------------------------------------------ Preferences
\* The flash (NVS) holds namespaces; a namespace is a function from the keys
\* it holds to strings.
EmptyNamespace == [k \in {} |-> ""]

NoFlash == [ns \in {"wifi-config", "boot-marker"} |-> EmptyNamespace]

\* preferences.getString(key, default) in namespace ns
getString(flash, ns, key, default) ==
  IF key \in DOMAIN flash[ns] THEN flash[ns][key] ELSE default

\* preferences.putString(key, value) in namespace ns
putString(flash, ns, key, value) ==
  [flash EXCEPT ![ns] = [k \in (DOMAIN flash[ns]) \cup {key} |->
                           IF k = key THEN value ELSE flash[ns][k]]]

\* preferences.clear() in namespace ns
prefsClear(flash, ns) == [flash EXCEPT ![ns] = EmptyNamespace]

\* ------------------------------------------------------- credential store
\* loadWiFiConfig: the pair read into savedSSID / savedPassword
loadWiFiConfig(flash) ==
  [ssid     |-> getString(flash, "wifi-config", "ssid", ""),
   password |-> getString(flash, "wifi-config", "password", "")]

\* saveWiFiConfig writing the network name under both keys
saveWiFiConfigSameKey(flash, ssid, password) ==
  putString(putString(flash, "wifi-config", "ssid", ssid),
            "wifi-config", "password", ssid)

\* saveWiFiConfig: the flash after the two putString calls
saveWiFiConfig(flash, ssid, password) ==
  putString(putString(flash, "wifi-config", "ssid", ssid),
            "wifi-config", "password", password)

\* clearWiFiConfig erasing only the secret
clearWiFiConfigSecretOnly(flash) ==
  putString(flash, "wifi-config", "password", "")

\* clearWiFiConfig: the flash after preferences.clear()
clearWiFiConfig(flash) == prefsClear(flash, "wifi-config")

\* isFirstBoot that never finds the marker equal
isFirstBootAlways(flash, compileTime) == TRUE

\* isFirstBoot: the stored compile time differs from this build's
isFirstBoot(flash, compileTime) ==
  getString(flash, "boot-marker", "compile_time", "") # compileTime

\* markAsBooted: the flash after storing this build's compile time
markAsBooted(flash, compileTime) ==
  putString(flash, "boot-marker", "compile_time", compileTime)

\* setup() taking every configuration as present
NoConfigurationNever(ssid) == FALSE

\* setup(), line 101: savedSSID.length() == 0
NoConfiguration(ssid) == ssid = ""

\* ---------------------------------------------------------- connectToWiFi
\* The polling loop of connectToWiFi.  now is millis(), n the number of polls
\* made so far, upAt the poll at which WiFi.status() first is WL_CONNECTED.
\* The result is the return value and the clock at the return.
RECURSIVE ConnectPoll(_, _, _, _)
ConnectPoll(now, startTime, n, upAt) ==
  IF n >= upAt
    THEN [connected |-> TRUE, now |-> now]
    ELSE LET t == Add32(now, PollTicks)
         IN  IF Sub32(t, startTime) > WIFI_TIMEOUT * TicksPerSecond
               THEN [connected |-> FALSE, now |-> t]
               ELSE ConnectPoll(t, startTime, n + 1, upAt)

\* connectToWiFi measuring from the start of the clock
connectToWiFiFromZero(now, upAt) == ConnectPoll(now, 0, 0, upAt)

connectToWiFi(now, upAt) == ConnectPoll(now, now, 0, upAt)

\* ---------------------------------------------------------------- timer
\* the interval always the normal one
ActiveIntervalNormal(succeeded) == DATA_SEND_INTERVAL

\* lastUploadSucceeded ? DATA_SEND_INTERVAL : DATA_SEND_SHORT_INTERVAL
ActiveInterval(succeeded) ==
  IF succeeded THEN DATA_SEND_INTERVAL ELSE DATA_SEND_SHORT_INTERVAL

\* timerDone never finding the interval passed
timerDoneNever(lastUpdatedTime, intervalTimeS, currentTime) ==
  [done |-> FALSE, last |-> lastUpdatedTime]

\* timerDone(&lastUpdatedTime, intervalTimeS) called when millis() is
\* currentTime: the return value and the value left in *lastUpdatedTime.
timerDone(lastUpdatedTime, intervalTimeS, currentTime) ==
  IF currentTime < Add32(lastUpdatedTime, intervalTimeS * TicksPerSecond)
    THEN [done |-> FALSE, last |-> lastUpdatedTime]
    ELSE [done |-> TRUE, last |-> currentTime]

\* ------------------------------------------------------------ temperature
\* The for loop of getTemperature (lines 681-693) from index i on (1-based
\* here), lowestTemp being lowest.
RECURSIVE LowestFrom(_, _, _)
LowestFrom(readings, i, lowest) ==
  IF i > Len(readings)
    THEN lowest
    ELSE LET temp == readings[i]
         IN  LowestFrom(readings, i + 1,
                        IF temp # DEVICE_DISCONNECTED_C /\ temp < lowest
                          THEN temp ELSE lowest)

\* getTemperature() on a bus whose sensors read readings[1], readings[2], ...
getTemperature(readings) ==
  LET sensorCount == Len(readings)
  IN  IF sensorCount = 0
        THEN InvalidTemperature
        ELSE LET first == readings[1]
                 lowestTemp == IF sensorCount > 1
                                 THEN LowestFrom(readings, 1, first)
                                 ELSE first
             IN  IF lowestTemp = DEVICE_DISCONNECTED_C
                   THEN InvalidTemperature
                   ELSE lowestTemp

\* --------------------------------------------------------------- reporter
\* every positive response code taken as success
UploadSucceededAnyResponse(httpCode) == httpCode > 0

\* sendDataToWeb's classification of http.GET()'s result
UploadSucceeded(httpCode) == httpCode > 0 /\ httpCode = HTTP_CODE_OK

\* the counter incremented on every attempt
CountUploadAlways(count, success) == count + 1

\* successfulUploads after an attempt
CountUpload(count, success) == IF success THEN count + 1 ELSE count

\* "seconds until next upload" of the status page
timeUntilNext(last, succeeded, now) ==
  Sub32(Add32(last, ActiveInterval(succeeded) * TicksPerSecond), now)
    \div TicksPerSecond

\* ------------------------------------------------------------- web server
\* A request carries its method, path and form arguments (a function from
\* the argument names present to their values).
NoArgs == [k \in {} |-> ""]
NoRequest == [method |-> "", path |-> "", args |-> NoArgs]

SaveArgs ==
  {NoArgs} \cup {[k \in {"ssid"} |-> s] : s \in Ssids}
           \cup {[k \in {"password"} |-> p] : p \in Passwords}
           \cup {[k \in {"ssid", "password"} |-> IF k = "ssid" THEN s ELSE p] :
                   s \in Ssids, p \in Passwords}

Requests ==
  {[method |-> "GET", path |-> "/", args |-> NoArgs],
   [method |-> "GET", path |-> "/resetwifi", args |-> NoArgs],
   [method |-> "POST", path |-> "/confirmreset", args |-> NoArgs]}
  \cup {[method |-> "POST", path |-> "/save", args |-> a] : a \in SaveArgs}

\* server.hasArg(name) answering yes for every name
hasArgAlways(req, name) == TRUE

\* server.hasArg(name) and server.arg(name)
hasArg(req, name) == name \in DOMAIN req.args
arg(req, name) == IF name \in DOMAIN req.args THEN req.args[name] ELSE ""

NoResponse == [code |-> 0, page |-> "", next |-> 0]
Response(code, page) == [code |-> code, page |-> page, next |-> 0]

\* server.on(uri, fn) and server.on(uri, HTTP_POST, fn) append a handler
Route(uri, method, fn) == [uri |-> uri, method |-> method, fn |-> fn]

\* the handlers setup() registers once connected
StatusRoutes ==
  << Route("/", "ANY", "handleStatus"),
     Route("/resetwifi", "ANY", "handleResetWiFi"),
     Route("/confirmreset", "POST", "handleConfirmReset") >>

\* the handlers startAPMode() registers
APRoutes ==
  << Route("/", "ANY", "handleRoot"),
     Route("/save", "POST", "handleSave"),
     Route("/resetwifi", "ANY", "handleResetWiFi"),
     Route("/confirmreset", "POST", "handleConfirmReset") >>

Matches(route, req) ==
  route.uri = req.path /\ route.method \in {"ANY", req.method}

\* server.handleClient(): the first registered handler that can handle the
\* request runs; with none, the server answers 404.
Dispatch(rs, req) ==
  LET hits == {i \in 1..Len(rs) : Matches(rs[i], req)}
  IN  IF hits = {} THEN "notFound"
      ELSE rs[CHOOSE i \in hits : \A j \in hits : i <= j].fn

\* ------------------------------------------------------------------ state
VARIABLES
  pc,                  \* where the sketch is: setup, or a line of loop()
  caller,              \* who called sendDataToWeb: "setup" or "loop"
  millis,              \* millis(), in ticks
  flash,               \* Preferences (NVS): survives restarts
  compileTime,         \* __DATE__ " " __TIME__ of the flashed build
  savedSSID, savedPassword,
  configMode,
  lastUploadSucceeded, lastUploadTime, successfulUploads,
  wifiMode,            \* WiFi.mode(): "OFF", "STA" or "AP"
  softAP,              \* name and secret of the access point, when active
  link,                \* WiFi.status() == WL_CONNECTED
  routes, serverBegun, \* server.on(...) registrations, server.begin()
  pending,             \* the request handleClient() will find
  response,            \* the answer to the request last handled
  event,               \* what the last step of the sketch did with the radio
  bootConnects,        \* connectToWiFi calls made by setup()
  lastAttempt,         \* << code >> of the last http.GET() of this session
  bus,                 \* the sensors' readings at the requestTemperatures()
                       \* of the sendDataToWeb call under way
  temperature,         \* << t >>: the temperature argument of that call
  attemptTime          \* << millis() >> at the last call of sendDataToWeb

vars ==
  << pc, caller, millis, flash, compileTime, savedSSID, savedPassword,
     configMode, lastUploadSucceeded, lastUploadTime, successfulUploads,
     wifiMode, softAP, link, routes, serverBegun, pending, response, event,
     bootConnects, lastAttempt, bus, temperature, attemptTime >>

NoAP == [ssid |-> "", password |-> ""]

\* The globals as the C++ initialisers leave them (lines 51-57), the radio
\* off, no handler registered, the clock at 0.
Reset ==
  /\ pc' = "setup"
  /\ caller' = "setup"
  /\ millis' = 0
  /\ savedSSID' = ""
  /\ savedPassword' = ""
  /\ configMode' = FALSE
  /\ lastUploadSucceeded' = TRUE
  /\ lastUploadTime' = 0
  /\ successfulUploads' = 0
  /\ wifiMode' = "OFF"
  /\ softAP' = NoAP
  /\ link' = FALSE
  /\ routes' = << >>
  /\ serverBegun' = FALSE
  /\ pending' = NoRequest
  /\ event' = "boot"
  /\ bootConnects' = 0
  /\ lastAttempt' = << >>
  /\ bus' = << >>
  /\ temperature' = << >>
  /\ attemptTime' = << >>

\* A device just flashed with its first build, nothing in flash.
Init ==
  /\ pc = "setup"
  /\ caller = "setup"
  /\ millis = 0
  /\ flash = NoFlash
  /\ compileTime \in CompileTimes
  /\ savedSSID = ""
  /\ savedPassword = ""
  /\ configMode = FALSE
  /\ lastUploadSucceeded = TRUE
  /\ lastUploadTime = 0
  /\ successfulUploads = 0
  /\ wifiMode = "OFF"
  /\ softAP = NoAP
  /\ link = FALSE
  /\ routes = << >>
  /\ serverBegun = FALSE
  /\ pending = NoRequest
  /\ response = NoResponse
  /\ event = "boot"
  /\ bootConnects = 0
  /\ lastAttempt = << >>
  /\ bus = << >>
  /\ temperature = << >>
  /\ attemptTime = << >>

\* A restart that loses the stored credentials
RestartWiping ==
  /\ Reset
  /\ flash' = prefsClear(flash, "wifi-config")
  /\ UNCHANGED compileTime

\* ESP.restart(): the sketch starts over, the flash is kept.
Restart == Reset /\ UNCHANGED << flash, compileTime >>

\* startAPMode() leaving the radio a station
startAPModeStation ==
  /\ wifiMode' = "STA"
  /\ softAP' = NoAP
  /\ link' = FALSE
  /\ routes' = routes \o APRoutes
  /\ serverBegun' = TRUE

\* startAPMode() without server.begin()
startAPModeNoServer ==
  /\ wifiMode' = "AP"
  /\ softAP' = [ssid |-> AP_SSID, password |-> AP_PASSWORD]
  /\ link' = FALSE
  /\ routes' = routes \o APRoutes
  /\ serverBegun' = serverBegun

\* startAPMode(): the radio becomes an access point (the station link is
\* gone), the setup handlers are appended and the server is started.
startAPMode ==
  /\ wifiMode' = "AP"
  /\ softAP' = [ssid |-> AP_SSID, password |-> AP_PASSWORD]
  /\ link' = FALSE
  /\ routes' = routes \o APRoutes
  /\ serverBegun' = TRUE

\* ------------------------------------------------------------------ setup
\* setup() up to the call of sendDataToWeb (lines 84-122), getTemperature()
\* for its argument included.
Setup ==
  /\ pc = "setup"
  /\ LET first == isFirstBoot(flash, compileTime)
         f1 == IF first
                 THEN markAsBooted(clearWiFiConfig(flash), compileTime)
                 ELSE flash
         cfg == loadWiFiConfig(f1)
         t0 == Add32(millis, DelayTicks)
     IN  /\ flash' = f1
         /\ savedSSID' = cfg.ssid
         /\ savedPassword' = cfg.password
         /\ IF NoConfiguration(cfg.ssid)
              THEN /\ startAPMode
                   /\ configMode' = TRUE
                   /\ millis' = t0
                   /\ pc' = "loop_top"
                   /\ caller' = "loop"
                   /\ event' = "none"
                   /\ bootConnects' = 0
                   /\ UNCHANGED << bus, temperature, attemptTime >>
              ELSE \E upAt \in ConnectUpAt :
                     LET r == connectToWiFi(t0, upAt)
                     IN  /\ millis' = r.now
                         /\ bootConnects' = 1
                         /\ IF r.connected
                              THEN /\ wifiMode' = "STA"
                                   /\ link' = TRUE
                                   /\ routes' = routes \o StatusRoutes
                                   /\ serverBegun' = TRUE
                                   /\ pc' = "send_check"
                                   /\ event' = "connect_ok"
                                   /\ \E b \in BusSamples :
                                        /\ bus' = b
                                        /\ temperature' = << getTemperature(b) >>
                                   /\ attemptTime' = << r.now >>
                                   /\ UNCHANGED << configMode, softAP, caller >>
                              ELSE /\ startAPMode
                                   /\ configMode' = TRUE
                                   /\ pc' = "loop_top"
                                   /\ caller' = "loop"
                                   /\ event' = "connect_fail"
                                   /\ UNCHANGED << bus, temperature,
                                                   attemptTime >>
  /\ response' = NoResponse
  /\ UNCHANGED << compileTime, lastUploadSucceeded, lastUploadTime,
                  successfulUploads, pending, lastAttempt >>

\* ------------------------------------------------- loop(): handleClient()
\* loop() going on to the link check in configuration mode too
ServedNoReturn ==
  /\ pending' = NoRequest
  /\ pc' = "loop_link"
  /\ event' = "none"
  /\ UNCHANGED << caller, millis, flash, compileTime, savedSSID, savedPassword,
                  configMode, lastUploadSucceeded, lastUploadTime,
                  successfulUploads, wifiMode, softAP, link, routes,
                  serverBegun, bootConnects, lastAttempt,
                  bus, temperature, attemptTime >>

\* What every handler that returns leaves alone, and where loop() goes on:
\* back to the top in configuration mode (line 133), else to the link check.
Served ==
  /\ pending' = NoRequest
  /\ pc' = IF configMode THEN "loop_top" ELSE "loop_link"
  /\ event' = "none"
  /\ UNCHANGED << caller, millis, flash, compileTime, savedSSID, savedPassword,
                  configMode, lastUploadSucceeded, lastUploadTime,
                  successfulUploads, wifiMode, softAP, link, routes,
                  serverBegun, bootConnects, lastAttempt,
                  bus, temperature, attemptTime >>

Handler(fn) ==
  /\ pc = "loop_top"
  /\ serverBegun
  /\ pending # NoRequest
  /\ Dispatch(routes, pending) = fn

\* handleClient() with no client waiting
NoClient ==
  /\ pc = "loop_top"
  /\ pending = NoRequest
  /\ response' = NoResponse
  /\ Served

\* handleRoot(): the setup form
HandleRoot ==
  /\ Handler("handleRoot")
  /\ response' = Response(200, "setup")
  /\ Served

\* handleStatus(): the status page with the seconds until the next upload
HandleStatus ==
  /\ Handler("handleStatus")
  /\ response' = [code |-> 200, page |-> "status",
                  next |-> timeUntilNext(lastUploadTime, lastUploadSucceeded,
                                         millis)]
  /\ Served

\* handleResetWiFi(): the confirmation page
HandleResetWiFi ==
  /\ Handler("handleResetWiFi")
  /\ response' = Response(200, "resetwifi")
  /\ Served

\* handleSave(): with both arguments present, save, answer 200 and restart;
\* else answer 400.
HandleSave ==
  /\ Handler("handleSave")
  /\ IF hasArg(pending, "ssid") /\ hasArg(pending, "password")
       THEN /\ flash' = saveWiFiConfig(flash, arg(pending, "ssid"),
                                       arg(pending, "password"))
            /\ response' = Response(200, "saved")
            /\ Reset
            /\ UNCHANGED compileTime
       ELSE /\ response' = Response(400, "Missing parameters")
            /\ Served

\* handleConfirmReset(): answer 200, clear the credentials, restart
HandleConfirmReset ==
  /\ Handler("handleConfirmReset")
  /\ response' = Response(200, "reset")
  /\ flash' = clearWiFiConfig(flash)
  /\ Reset
  /\ UNCHANGED compileTime

\* no handler for the request
NotFound ==
  /\ Handler("notFound")
  /\ response' = Response(404, "Not found")
  /\ Served

\* ------------------------------------------------------ loop(): the rest
\* Lines 140-148: the link check, the reconnect and the fallback.
LoopLink ==
  /\ pc = "loop_link"
  /\ IF link
       THEN /\ pc' = "loop_timer"
            /\ event' = "none"
            /\ UNCHANGED << millis, configMode, wifiMode, softAP, link, routes,
                            serverBegun >>
       ELSE \E upAt \in ConnectUpAt :
              LET r == connectToWiFi(millis, upAt)
              IN  /\ r.now <= MaxMillis
                  /\ millis' = r.now
                  /\ IF r.connected
                       THEN /\ wifiMode' = "STA"
                            /\ link' = TRUE
                            /\ pc' = "loop_timer"
                            /\ event' = "connect_ok"
                            /\ UNCHANGED << configMode, softAP, routes,
                                            serverBegun >>
                       ELSE /\ startAPMode
                            /\ configMode' = TRUE
                            /\ pc' = "loop_top"
                            /\ event' = "connect_fail"
  /\ response' = NoResponse
  /\ UNCHANGED << caller, flash, compileTime, savedSSID, savedPassword,
                  lastUploadSucceeded, lastUploadTime, successfulUploads,
                  pending, bootConnects, lastAttempt,
                  bus, temperature, attemptTime >>

\* Lines 150-151: timerDone(&lastUploadTime, ...) and, when it is due,
\* getTemperature() for the call of sendDataToWeb.
LoopTimer ==
  /\ pc = "loop_timer"
  /\ LET r == timerDone(lastUploadTime, ActiveInterval(lastUploadSucceeded),
                        millis)
     IN  /\ lastUploadTime' = r.last
         /\ IF r.done
              THEN /\ pc' = "send_check"
                   /\ \E b \in BusSamples :
                        /\ bus' = b
                        /\ temperature' = << getTemperature(b) >>
                   /\ attemptTime' = << millis >>
              ELSE /\ pc' = "loop_delay"
                   /\ UNCHANGED << bus, temperature, attemptTime >>
  /\ event' = "none"
  /\ response' = NoResponse
  /\ UNCHANGED << caller, millis, flash, compileTime, savedSSID, savedPassword,
                  configMode, lastUploadSucceeded, successfulUploads, wifiMode,
                  softAP, link, routes, serverBegun, pending, bootConnects,
                  lastAttempt >>

\* sendDataToWeb, line 597: checkWiFiStatus().
SendCheck ==
  /\ pc = "send_check"
  /\ IF link
       THEN /\ event' = "none"
            /\ UNCHANGED << millis, wifiMode, link, bootConnects >>
       ELSE \E upAt \in ConnectUpAt :
              LET r == connectToWiFi(millis, upAt)
              IN  /\ r.now <= MaxMillis
                  /\ millis' = r.now
                  /\ wifiMode' = "STA"
                  /\ link' = r.connected
                  /\ event' = IF r.connected THEN "connect_ok"
                                             ELSE "connect_fail"
                  /\ bootConnects' = IF caller = "setup"
                                       THEN bootConnects + 1
                                       ELSE bootConnects
  /\ pc' = "send_get"
  /\ response' = NoResponse
  /\ UNCHANGED << caller, flash, compileTime, savedSSID, savedPassword,
                  configMode, lastUploadSucceeded, lastUploadTime,
                  successfulUploads, softAP, routes, serverBegun, pending,
                  lastAttempt,
                  bus, temperature, attemptTime >>

\* sendDataToWeb, lines 599-662: the URL built from the temperature and the
\* sensor count, http.GET() and the bookkeeping.  With the link down the
\* request cannot leave the device: GET returns an error code.
SendGet ==
  /\ pc = "send_get"
  /\ \E httpCode \in HttpCodes :
       /\ link \/ httpCode < 0
       /\ LET success == UploadSucceeded(httpCode)
          IN  /\ successfulUploads' = CountUpload(successfulUploads, success)
              /\ lastUploadSucceeded' = success
       /\ lastAttempt' = << httpCode >>
  /\ bus' = << >>
  /\ temperature' = << >>
  /\ pc' = IF caller = "setup" THEN "loop_top" ELSE "loop_delay"
  /\ caller' = "loop"
  /\ event' = "none"
  /\ response' = NoResponse
  /\ UNCHANGED << millis, flash, compileTime, savedSSID, savedPassword,
                  configMode, lastUploadTime, wifiMode, softAP, link, routes,
                  serverBegun, pending, bootConnects, attemptTime >>

\* Line 154: delay(100), and the idle iterations that follow it.  The next
\* iteration looked at begins 30 s or 60 s later; the timer is not consulted
\* in between, so it may be found due late, as it is in the sketch whenever a
\* blocking call (a connect attempt, a GET, a handler) holds up loop().
LoopDelay ==
  /\ pc = "loop_delay"
  /\ \E k \in IdleRuns :
       /\ millis + k * DelayTicks <= MaxMillis
       /\ millis' = Add32(millis, k * DelayTicks)
  /\ pc' = "loop_top"
  /\ event' = "none"
  /\ response' = NoResponse
  /\ UNCHANGED << caller, flash, compileTime, savedSSID, savedPassword,
                  configMode, lastUploadSucceeded, lastUploadTime,
                  successfulUploads, wifiMode, softAP, link, routes,
                  serverBegun, pending, bootConnects, lastAttempt,
                  bus, temperature, attemptTime >>

\* ------------------------------------------------------------ environment
\* A browser sends a request; handleClient() finds it at the top of loop().
\* The exchange before it is over.
Arrive ==
  /\ pc = "loop_top"
  /\ serverBegun
  /\ pending = NoRequest
  /\ pending' \in Requests
  /\ response' = NoResponse
  /\ UNCHANGED << pc, caller, millis, flash, compileTime, savedSSID,
                  savedPassword, configMode, lastUploadSucceeded,
                  lastUploadTime, successfulUploads, wifiMode, softAP, link,
                  routes, serverBegun, event, bootConnects, lastAttempt,
                  bus, temperature, attemptTime >>

\* The station loses its network.
LinkDrop ==
  /\ link
  /\ link' = FALSE
  /\ UNCHANGED << pc, caller, millis, flash, compileTime, savedSSID,
                  savedPassword, configMode, lastUploadSucceeded,
                  lastUploadTime, successfulUploads, wifiMode, softAP, routes,
                  serverBegun, pending, response, event, bootConnects,
                  lastAttempt,
                  bus, temperature, attemptTime >>

\* The station, left in WIFI_STA mode after WiFi.begin(), associates again.
LinkUp ==
  /\ wifiMode = "STA"
  /\ ~link
  /\ link' = TRUE
  /\ UNCHANGED << pc, caller, millis, flash, compileTime, savedSSID,
                  savedPassword, configMode, lastUploadSucceeded,
                  lastUploadTime, successfulUploads, wifiMode, softAP, routes,
                  serverBegun, pending, response, event, bootConnects,
                  lastAttempt,
                  bus, temperature, attemptTime >>

\* The power is cycled: the sketch starts over with the flash as it is.
PowerCycle ==
  /\ Restart
  /\ response' = NoResponse

\* Another build is flashed (the flash contents are kept) and started.
Reflash ==
  /\ compileTime' \in CompileTimes \ {compileTime}
  /\ Reset
  /\ response' = NoResponse
  /\ UNCHANGED flash

Next ==
  \/ Setup
  \/ NoClient
  \/ HandleRoot
  \/ HandleStatus
  \/ HandleResetWiFi
  \/ HandleSave
  \/ HandleConfirmReset
  \/ NotFound
  \/ LoopLink
  \/ LoopTimer
  \/ SendCheck
  \/ SendGet
  \/ LoopDelay
  \/ Arrive
  \/ LinkDrop
  \/ LinkUp
  \/ PowerCycle
  \/ Reflash

Spec == Init /\ [][Next]_vars

\* ------------------------------------------------- the timer on its own
\* timerDone called again and again by loop() on a device that has been up
\* for about 49.7 days, so that millis() is about to wrap: the window of the
\* clock from TimerOrigin on.
TimerOrigin == ClockMod - 60000
TimerStarts == {Add32(TimerOrigin, j * 30 * TicksPerSecond) : j \in 0..8}

\* An Operating device whose timer has just fired at lastUploadTime.
InitTimer ==
  /\ pc = "loop_delay"
  /\ caller = "loop"
  /\ lastUploadTime \in TimerStarts
  /\ millis = lastUploadTime
  /\ flash = markAsBooted(saveWiFiConfig(NoFlash, "Home", "secret1"),
                          "Nov  1 2025 10:00:00")
  /\ compileTime = "Nov  1 2025 10:00:00"
  /\ savedSSID = "Home"
  /\ savedPassword = "secret1"
  /\ configMode = FALSE
  /\ lastUploadSucceeded \in BOOLEAN
  /\ successfulUploads = 0
  /\ wifiMode = "STA"
  /\ softAP = NoAP
  /\ link = TRUE
  /\ routes = StatusRoutes
  /\ serverBegun = TRUE
  /\ pending = NoRequest
  /\ response = NoResponse
  /\ event = "timer_fired"
  /\ bootConnects = 1
  /\ lastAttempt = << >>
  /\ bus = << >>
  /\ temperature = << >>
  /\ attemptTime = << >>

\* Line 150 alone: one call of timerDone; event records what it returned.
TimerCall ==
  /\ pc = "loop_timer"
  /\ LET r == timerDone(lastUploadTime, ActiveInterval(lastUploadSucceeded),
                        millis)
     IN  /\ lastUploadTime' = r.last
         /\ event' = IF r.done THEN "timer_fired" ELSE "timer_waiting"
  /\ pc' = "loop_delay"
  /\ UNCHANGED << caller, millis, flash, compileTime, savedSSID, savedPassword,
                  configMode, lastUploadSucceeded, successfulUploads, wifiMode,
                  softAP, link, routes, serverBegun, pending, response,
                  bootConnects, lastAttempt,
                  bus, temperature, attemptTime >>

\* Line 154 and the idle iterations after it, within the window.
TimerDelay ==
  /\ pc = "loop_delay"
  /\ \E k \in TimerRuns :
       /\ Sub32(millis, TimerOrigin) + k * DelayTicks <= MaxTimerSpan
       /\ millis' = Add32(millis, k * DelayTicks)
  /\ pc' = "loop_timer"
  /\ UNCHANGED << caller, flash, compileTime, savedSSID, savedPassword,
                  configMode, lastUploadSucceeded, lastUploadTime,
                  successfulUploads, wifiMode, softAP, link, routes,
                  serverBegun, pending, response, event, bootConnects,
                  lastAttempt,
                  bus, temperature, attemptTime >>

NextTimer == TimerCall \/ TimerDelay

SpecTimer == InitTimer /\ [][NextTimer]_vars

\* ------------------------------------------- getTemperature on its own
\* An Operating device whose upload timer is due, on every bus of up to
\* MaxSensors sensors: bus is what requestTemperatures() will find.
InitSensor ==
  /\ pc = "loop_timer"
  /\ caller = "loop"
  /\ millis = DATA_SEND_INTERVAL * TicksPerSecond
  /\ lastUploadTime = 0
  /\ flash = markAsBooted(saveWiFiConfig(NoFlash, "Home", "secret1"),
                          "Nov  1 2025 10:00:00")
  /\ compileTime = "Nov  1 2025 10:00:00"
  /\ savedSSID = "Home"
  /\ savedPassword = "secret1"
  /\ configMode = FALSE
  /\ lastUploadSucceeded = TRUE
  /\ successfulUploads = 1
  /\ wifiMode = "STA"
  /\ softAP = NoAP
  /\ link = TRUE
  /\ routes = StatusRoutes
  /\ serverBegun = TRUE
  /\ pending = NoRequest
  /\ response = NoResponse
  /\ event = "none"
  /\ bootConnects = 1
  /\ lastAttempt = << HTTP_CODE_OK >>
  /\ bus \in Buses
  /\ temperature = << >>
  /\ attemptTime = << DelayTicks >>

\* Lines 150-151 on that bus: the timer fires and getTemperature() is
\* evaluated for the call of sendDataToWeb.
SensorRead ==
  /\ pc = "loop_timer"
  /\ LET r == timerDone(lastUploadTime, ActiveInterval(lastUploadSucceeded),
                        millis)
     IN  /\ r.done
         /\ lastUploadTime' = r.last
  /\ temperature' = << getTemperature(bus) >>
  /\ attemptTime' = << millis >>
  /\ pc' = "send_check"
  /\ event' = "none"
  /\ UNCHANGED << caller, millis, flash, compileTime, savedSSID, savedPassword,
                  configMode, lastUploadSucceeded, successfulUploads, wifiMode,
                  softAP, link, routes, serverBegun, pending, response,
                  bootConnects, lastAttempt, bus >>

NextSensor == SensorRead

SpecSensor == InitSensor /\ [][NextSensor]_vars

\* ------------------------------------- handleSave statement by statement
\* handleSave with both fields present, followed one statement at a time
\* from a device in configuration mode to the boot after its restart.
\* The request under way stays in pending until the restart.
SavePair == [ssid |-> arg(pending, "ssid"), password |-> arg(pending, "password")]

\* A device in configuration mode at the top of loop(), with or without a
\* pair stored before, entered at boot or by fallback, and a POST /save
\* carrying both fields waiting.
InitSave ==
  /\ pc = "loop_top"
  /\ caller = "loop"
  /\ millis \in {DelayTicks + k * DelayTicks : k \in {0} \cup IdleRuns}
  /\ compileTime \in CompileTimes
  /\ flash \in {markAsBooted(NoFlash, compileTime),
                markAsBooted(saveWiFiConfig(NoFlash, "Home", "secret1"),
                             compileTime)}
  /\ savedSSID = loadWiFiConfig(flash).ssid
  /\ savedPassword = loadWiFiConfig(flash).password
  /\ configMode = TRUE
  /\ lastUploadSucceeded = TRUE
  /\ lastUploadTime = 0
  /\ successfulUploads = 0
  /\ wifiMode = "AP"
  /\ softAP = [ssid |-> AP_SSID, password |-> AP_PASSWORD]
  /\ link = FALSE
  /\ routes \in {APRoutes} \cup (IF savedSSID = "" THEN {}
                                  ELSE {StatusRoutes \o APRoutes})
  /\ serverBegun = TRUE
  /\ pending \in {q \in Requests : hasArg(q, "ssid") /\ hasArg(q, "password")}
  /\ response = NoResponse
  /\ event = "none"
  /\ bootConnects = IF savedSSID = "" THEN 0 ELSE 1
  /\ lastAttempt = << >>
  /\ bus = << >>
  /\ temperature = << >>
  /\ attemptTime = << >>

\* Lines 290-185: the test of the two fields and, in saveWiFiConfig, the two
\* putString calls.
SaveWrite ==
  /\ Handler("handleSave")
  /\ hasArg(pending, "ssid") /\ hasArg(pending, "password")
  /\ flash' = saveWiFiConfig(flash, arg(pending, "ssid"), arg(pending, "password"))
  /\ pc' = "save_cache"
  /\ UNCHANGED << caller, millis, compileTime, savedSSID, savedPassword,
                  configMode, lastUploadSucceeded, lastUploadTime,
                  successfulUploads, wifiMode, softAP, link, routes,
                  serverBegun, pending, response, event, bootConnects,
                  lastAttempt, bus, temperature, attemptTime >>

\* the cache left as it was
SaveCacheStale ==
  /\ pc = "save_cache"
  /\ pc' = "save_send"
  /\ UNCHANGED << caller, millis, flash, compileTime, savedSSID, savedPassword,
                  configMode, lastUploadSucceeded, lastUploadTime,
                  successfulUploads, wifiMode, softAP, link, routes,
                  serverBegun, pending, response, event, bootConnects,
                  lastAttempt, bus, temperature, attemptTime >>

\* Lines 187-188: savedSSID = ssid; savedPassword = password.
SaveCache ==
  /\ pc = "save_cache"
  /\ savedSSID' = arg(pending, "ssid")
  /\ savedPassword' = arg(pending, "password")
  /\ pc' = "save_send"
  /\ UNCHANGED << caller, millis, flash, compileTime, configMode,
                  lastUploadSucceeded, lastUploadTime, successfulUploads,
                  wifiMode, softAP, link, routes, serverBegun, pending,
                  response, event, bootConnects, lastAttempt, bus,
                  temperature, attemptTime >>

\* Line 313: server.send(200, ...).
SaveSend ==
  /\ pc = "save_send"
  /\ response' = Response(200, "saved")
  /\ pc' = "save_restart"
  /\ UNCHANGED << caller, millis, flash, compileTime, savedSSID, savedPassword,
                  configMode, lastUploadSucceeded, lastUploadTime,
                  successfulUploads, wifiMode, softAP, link, routes,
                  serverBegun, pending, event, bootConnects, lastAttempt, bus,
                  temperature, attemptTime >>

\* Lines 315-316: delay(2000) and ESP.restart().
SaveRestart ==
  /\ pc = "save_restart"
  /\ Restart
  /\ UNCHANGED response

NextSave == SaveWrite \/ SaveCache \/ SaveSend \/ SaveRestart \/ Setup

SpecSave == InitSave /\ [][NextSave]_vars

\* ================================================================ claims
\* Steps of the sketch the claims speak about.
\* sendDataToWeb issues its GET and returns (a restart leads to "setup").
GetStep == pc = "send_get" /\ pc' \in {"loop_top", "loop_delay"}
\* setup() runs up to the reporter or to its end.
BootStep == pc = "setup" /\ pc' # "setup"
\* setup() returns: at line 104 or 110, or when sendDataToWeb returns to it.
SetupReturns == caller = "setup" /\ caller' = "loop"
\* loop() calls timerDone at line 150.
TimerStep == pc = "loop_timer" /\ pc' \in {"send_check", "loop_delay"}
\* handleSave with both arguments, and handleConfirmReset.
SaveStep ==
  /\ Handler("handleSave")
  /\ hasArg(pending, "ssid") /\ hasArg(pending, "password")
  /\ pc' = "setup"
  /\ response'.page = "saved"
ClearStep ==
  /\ Handler("handleConfirmReset")
  /\ pc' = "setup"
  /\ response'.page = "reset"
\* The access point is up under its fixed name and secret.
AccessPointUp ==
  wifiMode = "AP" /\ softAP = [ssid |-> AP_SSID, password |-> AP_PASSWORD]

\* C1 (as claimed): the reporter issues its GET only on a device that is not
\* in configuration mode and whose connectivity check left the link up; after
\* a failed reconnect in checkWiFiStatus no GET is issued.
C1_UploadOnlyWhenOperating ==
  pc = "send_get" => (~configMode /\ event # "connect_fail")

\* C2 (as claimed): a reconnect attempt that fails puts the device into
\* configuration mode with the access point up, wherever in the main cycle
\* the link was found down, so that no second attempt follows.
C2_FailedReconnectFallsBack ==
  event = "connect_fail" => (configMode /\ AccessPointUp)

AllOrNothing(c) == (c.ssid = "") <=> (c.password = "")
C4_CredentialsAllOrNothing ==
  /\ AllOrNothing(loadWiFiConfig(flash))
  /\ AllOrNothing([ssid |-> savedSSID, password |-> savedPassword])

\* C5 (as claimed): a call of timerDone made less than the interval after the
\* reference time returns false and leaves the reference alone; a call that
\* returns true sets the reference to the current time.  The time since the
\* reference is the 32-bit difference of the clock and the reference.
C5_TimerDone ==
  [][(pc = "loop_timer" /\ pc' = "loop_delay") =>
       LET interval == ActiveInterval(lastUploadSucceeded) * TicksPerSecond
           elapsed == Sub32(millis, lastUploadTime)
       IN  /\ elapsed < interval =>
                (event' = "timer_waiting" /\ lastUploadTime' = lastUploadTime)
           /\ event' = "timer_fired" => lastUploadTime' = millis]_vars

\* C6: an attempt whose GET returns anything but 200 (a transport failure
\* included) leaves lastUploadSucceeded false, successfulUploads as it was and
\* the device Operating; and the timer call that follows a failed attempt
\* fires exactly when the short interval has passed.
C6_FailedUpload ==
  [][/\ (GetStep /\ lastAttempt'[1] # HTTP_CODE_OK) =>
          /\ ~lastUploadSucceeded'
          /\ successfulUploads' = successfulUploads
          /\ ~configMode /\ ~configMode'
     /\ (TimerStep /\ lastAttempt # << >> /\ lastAttempt[1] # HTTP_CODE_OK) =>
          ((pc' = "send_check") <=>
             (millis >= lastUploadTime
                          + DATA_SEND_SHORT_INTERVAL * TicksPerSecond))]_vars

\* C6: the timer has fired one short interval after a failed attempt, before
\* the normal interval has passed.
C6_Witness ==
  /\ pc = "send_check" /\ caller = "loop"
  /\ lastAttempt = << 404 >> /\ ~lastUploadSucceeded
  /\ lastUploadTime = millis
  /\ millis < DATA_SEND_INTERVAL * TicksPerSecond

\* An attempt counted as a success by the step that made it.
CountedAsSuccess ==
  lastUploadSucceeded' /\ successfulUploads' = successfulUploads + 1
CountedAsFailure ==
  ~lastUploadSucceeded' /\ successfulUploads' = successfulUploads

\* C7 (as claimed): an attempt is a success for every status from 200 to 299
\* and a failure for every other result.
C7_Any2xxSucceeds ==
  [][GetStep =>
       IF lastAttempt'[1] \in 200..299 THEN CountedAsSuccess
                                        ELSE CountedAsFailure]_vars

\* C7 (amended): an attempt is a success exactly for status 200, and a
\* failure for every other status, 2xx included, and every transport failure.
C7_Only200Succeeds ==
  [][GetStep =>
       IF lastAttempt'[1] = 200 THEN CountedAsSuccess
                                ELSE CountedAsFailure]_vars

\* C7: an attempt answered 204 was taken as a failure.
C7_Witness ==
  lastAttempt = << 204 >> /\ ~lastUploadSucceeded /\ successfulUploads = 0

\* C8: within a boot session successfulUploads never decreases; it grows by
\* one in an attempt that sets lastUploadSucceeded and is left alone by a
\* failed attempt and by every other step; and once an attempt was made,
\* lastUploadSucceeded tells whether the last one was answered 200.
C8_CounterMonotonic ==
  [][/\ pc' # "setup" =>
          /\ successfulUploads' >= successfulUploads
          /\ successfulUploads' =
               successfulUploads
                 + (IF GetStep /\ lastUploadSucceeded' THEN 1 ELSE 0)
     /\ lastAttempt' # << >> =>
          (lastUploadSucceeded' <=> lastAttempt'[1] = HTTP_CODE_OK)]_vars

\* C8: a failed attempt after a successful one left the counter at 1.
C8_Witness ==
  /\ successfulUploads = 1 /\ ~lastUploadSucceeded
  /\ lastAttempt = << -1 >> /\ pc = "loop_delay"

\* C9: a boot that finds the stored marker different from the build's compile
\* time (or finds none) clears the credentials, stores the compile time and
\* ends in configuration mode; a boot that finds it equal leaves the flash
\* alone; and after every boot the marker is the build's compile time.
StoredMarker(f) == getString(f, "boot-marker", "compile_time", "")
C9_FirstBoot ==
  [][/\ BootStep =>
          IF StoredMarker(flash) # compileTime
            THEN /\ flash'["wifi-config"] = EmptyNamespace
                 /\ StoredMarker(flash') = compileTime
                 /\ configMode' /\ savedSSID' = "" /\ savedPassword' = ""
            ELSE flash' = flash
     /\ pc' # "setup" => StoredMarker(flash') = compileTime']_vars

\* C9: credentials saved after the first boot were found by a later boot of
\* the same build, which connected with them.
C9_Witness ==
  /\ pc = "loop_top" /\ ~configMode
  /\ savedSSID = "Home" /\ savedPassword = "secret1"
  /\ StoredMarker(flash) = compileTime

\* C10: what handleSave saves is what a load yields, the boot after the
\* restart included; after handleConfirmReset a load yields the empty pair
\* and the boot-marker namespace is as before.
C10_RoundTrip ==
  [][/\ SaveStep =>
          loadWiFiConfig(flash') = [ssid |-> arg(pending, "ssid"),
                                   password |-> arg(pending, "password")]
     /\ ClearStep =>
          /\ loadWiFiConfig(flash') = [ssid |-> "", password |-> ""]
          /\ flash'["boot-marker"] = flash["boot-marker"]
     /\ (BootStep /\ StoredMarker(flash) = compileTime) =>
          [ssid |-> savedSSID', password |-> savedPassword']
            = loadWiFiConfig(flash)]_vars

\* C10: after a save and the restart, the boot loaded the saved pair (and
\* failed to connect with it).
C10_Witness ==
  /\ pc = "loop_top" /\ configMode /\ event = "connect_fail"
  /\ savedSSID = "Home" /\ savedPassword = "secret1"
  /\ loadWiFiConfig(flash) = [ssid |-> "Home", password |-> "secret1"]

\* handleSave runs on the pending request and answers it.
SaveHandled == Handler("handleSave") /\ response' # NoResponse
\* A POST /save is answered, by whatever the server finds for it.
SaveAnswered ==
  /\ pc = "loop_top" /\ serverBegun
  /\ pending.method = "POST" /\ pending.path = "/save"
  /\ response' # NoResponse
\* What a rejected request must leave alone: the stored and the cached
\* credentials, the mode, the upload counters and the schedule, and the
\* session itself (no restart: the clock and the radio go on).
DeviceUnchanged ==
  /\ UNCHANGED << flash, savedSSID, savedPassword, configMode,
                  lastUploadSucceeded, lastUploadTime, successfulUploads,
                  millis, wifiMode, softAP, link, routes, serverBegun,
                  bootConnects, lastAttempt >>
  /\ pc' # "setup"

\* C11 (as claimed): handleSave rejects with 400 a request in which ssid or
\* password is absent or present with an empty value, persists nothing and
\* does not restart.
C11_SaveRejectsEmptyFields ==
  [][(SaveHandled /\ (arg(pending, "ssid") = "" \/ arg(pending, "password") = ""))
       => (response'.code = 400 /\ flash' = flash /\ pc' # "setup")]_vars

ValidReadings(b) == {b[i] : i \in 1..Len(b)} \ {DEVICE_DISCONNECTED_C}
Minimum(S) == CHOOSE x \in S : \A y \in S : x <= y

\* C13 (as claimed): on a bus with at least one sensor that answers,
\* getTemperature gives the least of the readings of the sensors that answer,
\* wherever on the bus the disconnected sensors are, index 0 included.
C13_LowestValidReading ==
  (temperature # << >> /\ ValidReadings(bus) # {})
    => temperature[1] = Minimum(ValidReadings(bus))

\* C14 (as claimed): the temperature passed to sendDataToWeb is the invalid
\* sentinel exactly when the bus has no device or every device reports
\* disconnected; and the upload goes ahead with the temperature it was
\* given: the GET is issued, the sentinel included.
C14_SentinelExactly ==
  [][GetStep =>
       /\ temperature # << >> /\ lastAttempt' # << >>
       /\ (temperature[1] = InvalidTemperature) <=> (ValidReadings(bus) = {})]_vars

\* C15: a boot that finds no network name stored ends in configuration mode
\* with the access point up and the save handler answering POST /save; a
\* POST /save with both fields non-empty stores the pair, answers 200 and
\* restarts; a boot whose connect attempt succeeds is Operating and calls
\* sendDataToWeb in that same boot, with lastUploadTime still 0 and the
\* normal interval active; and that boot-time GET is issued before the normal
\* interval has passed on the clock, no timer call having been made.
C15_Provisioning ==
  [][/\ (BootStep /\ savedSSID' = "") =>
          /\ configMode' /\ AccessPointUp' /\ serverBegun'
          /\ pc' = "loop_top" /\ lastAttempt' = << >>
          /\ \A a \in SaveArgs :
               Dispatch(routes', [method |-> "POST", path |-> "/save",
                                  args |-> a]) = "handleSave"
     /\ (SaveStep /\ arg(pending, "ssid") # "" /\ arg(pending, "password") # "") =>
          /\ loadWiFiConfig(flash') = [ssid |-> arg(pending, "ssid"),
                                       password |-> arg(pending, "password")]
          /\ response'.code = 200
          /\ pc' = "setup" /\ millis' = 0
     /\ (BootStep /\ event' = "connect_ok") =>
          /\ [ssid |-> savedSSID', password |-> savedPassword']
               = loadWiFiConfig(flash)
          /\ ~configMode' /\ wifiMode' = "STA" /\ serverBegun'
          /\ pc' = "send_check" /\ caller' = "setup"
          /\ attemptTime' = << millis' >>
          /\ lastUploadTime' = 0
          /\ ActiveInterval(lastUploadSucceeded') = DATA_SEND_INTERVAL
     /\ (GetStep /\ caller = "setup") =>
          /\ millis < DATA_SEND_INTERVAL * TicksPerSecond
          /\ lastUploadTime = 0
          /\ ActiveInterval(lastUploadSucceeded) = DATA_SEND_INTERVAL
          /\ pc' = "loop_top" /\ ~configMode']_vars

\* C15: the device provisioned through the form has connected at its next
\* boot and made its boot-time upload at once, 100 ms after the start.
C15_Witness ==
  /\ pc = "loop_top" /\ ~configMode /\ wifiMode = "STA"
  /\ savedSSID = "Home" /\ savedPassword = "secret1"
  /\ bootConnects = 1 /\ lastAttempt = << HTTP_CODE_OK >>
  /\ successfulUploads = 1 /\ lastUploadSucceeded
  /\ lastUploadTime = 0 /\ attemptTime = << DelayTicks >>
  /\ millis = DelayTicks

\* handleResetWiFi runs on the pending request and answers it.
ResetPageStep == Handler("handleResetWiFi") /\ response' # NoResponse

\* C16: handleResetWiFi answers with the confirmation page and leaves the
\* device as it was; handleConfirmReset, with the device in configuration
\* mode or not, answers 200, leaves no credentials in flash or in the cache
\* and restarts; no step taken before setup() runs stores credentials; and
\* a boot that finds no network name stored ends in configuration mode with
\* the access point up, no connect attempt and no upload made.
C16_ResetHandshake ==
  [][/\ ResetPageStep =>
          /\ response' = Response(200, "resetwifi")
          /\ DeviceUnchanged
     /\ (pc = "loop_top" /\ serverBegun /\ pending.method = "POST"
           /\ pending.path = "/confirmreset" /\ response' # NoResponse) =>
          /\ ClearStep
          /\ response'.code = 200
          /\ loadWiFiConfig(flash') = [ssid |-> "", password |-> ""]
          /\ savedSSID' = "" /\ savedPassword' = ""
          /\ pc' = "setup" /\ bootConnects' = 0 /\ lastAttempt' = << >>
     /\ (pc = "setup" /\ pc' = "setup") =>
          loadWiFiConfig(flash') = loadWiFiConfig(flash)
     /\ (BootStep /\ loadWiFiConfig(flash).ssid = "") =>
          /\ configMode' /\ AccessPointUp'
          /\ savedSSID' = "" /\ pc' = "loop_top"
          /\ bootConnects' = 0 /\ event' = "none"
          /\ lastAttempt' = << >> /\ attemptTime' = << >>]_vars

\* C16: a reset has just been confirmed: the device has restarted with
\* nothing stored and setup() is about to run.
C16_Witness ==
  /\ pc = "setup" /\ response = Response(200, "reset")
  /\ flash["wifi-config"] = EmptyNamespace
  /\ StoredMarker(flash) = compileTime
  /\ savedSSID = "" /\ ~configMode

\* handleClient() at the top of loop(), whatever it finds.
HandleClient ==
  \/ NoClient
  \/ HandleRoot \/ HandleStatus \/ HandleResetWiFi
  \/ HandleSave \/ HandleConfirmReset
  \/ NotFound
\* The rest of loop().
RestOfLoop == LoopLink \/ LoopTimer \/ SendCheck \/ SendGet \/ LoopDelay

\* C17: from the connect attempt of setup() on, in configuration mode
\* (entered at boot or by fallback) and out of it, server.begin() has been
\* called and handlers are registered; a request waits only at the top of
\* loop(); and at the top of loop() the sketch's next step is handleClient(),
\* which serves the request that waits, and nothing else of loop().
C17_ServerAvailable ==
  /\ pc # "setup" => (serverBegun /\ routes # << >>)
  /\ pending # NoRequest => pc = "loop_top"
  /\ pc = "loop_top" => (ENABLED HandleClient /\ ~ENABLED RestOfLoop)
  /\ (pc = "loop_top" /\ pending # NoRequest) => ~ENABLED NoClient

\* C17: a device fallen back to the access point at run time, after having
\* uploaded, with a request waiting for handleClient().
C17_Witness ==
  /\ pc = "loop_top" /\ configMode /\ event = "connect_fail"
  /\ routes = StatusRoutes \o APRoutes /\ lastAttempt # << >>
  /\ serverBegun /\ pending # NoRequest

\* A GET / is answered.
RootAnswered ==
  /\ pc = "loop_top" /\ serverBegun
  /\ pending.method = "GET" /\ pending.path = "/"
  /\ response' # NoResponse

\* C18 (as claimed): GET / is answered with the setup form in configuration
\* mode and with the status page out of it, and in configuration mode POST
\* /save reaches handleSave, however configuration mode was entered.
C18_RootPageFollowsMode ==
  [][/\ RootAnswered =>
          /\ response'.code = 200
          /\ response'.page = IF configMode THEN "setup" ELSE "status"
     /\ (SaveAnswered /\ configMode) =>
          Dispatch(routes, pending) = "handleSave"]_vars

\* C19 (as claimed): a scheduled upload, the first after the boot-time one
\* included, is started no earlier than one active interval after the
\* upload before it was started: the normal interval when that one
\* succeeded, the short one when it failed.
C19_AttemptsPaced ==
  [][(TimerStep /\ pc' = "send_check" /\ attemptTime # << >>) =>
       Sub32(millis, attemptTime[1])
         >= ActiveInterval(lastUploadSucceeded) * TicksPerSecond]_vars

\* The cached pair.
Cached == [ssid |-> savedSSID, password |-> savedPassword]
\* No connect attempt and no upload is made by the step.
NoConnectNoUpload ==
  UNCHANGED << bootConnects, lastAttempt, attemptTime, event, wifiMode, link,
               configMode >>

\* C20: handleSave with both fields first writes the pair to flash, the
\* cache and the answer still as before; then sets the cache; then sends
\* 200; then restarts, the flash kept; none of these steps makes a connect
\* attempt or an upload; and the boot after the restart loads the pair and,
\* its network name not being empty, makes its connect attempt with it.
C20_SaveOrdering ==
  [][/\ (pc = "loop_top" /\ pc' # "loop_top") =>
          /\ pc' = "save_cache"
          /\ loadWiFiConfig(flash') = SavePair
          /\ UNCHANGED << savedSSID, savedPassword, response >>
          /\ NoConnectNoUpload
     /\ pc = "save_cache" =>
          /\ pc' = "save_send"
          /\ loadWiFiConfig(flash) = SavePair /\ response = NoResponse
          /\ Cached' = SavePair
          /\ UNCHANGED << flash, response >>
          /\ NoConnectNoUpload
     /\ pc = "save_send" =>
          /\ pc' = "save_restart"
          /\ loadWiFiConfig(flash) = SavePair /\ Cached = SavePair
          /\ response = NoResponse /\ response'.code = 200
          /\ UNCHANGED << flash, savedSSID, savedPassword >>
          /\ NoConnectNoUpload
     /\ pc = "save_restart" =>
          /\ pc' = "setup"
          /\ response.code = 200
          /\ loadWiFiConfig(flash) = SavePair /\ flash' = flash
          /\ bootConnects' = 0 /\ lastAttempt' = << >>
     /\ BootStep =>
          /\ Cached' = loadWiFiConfig(flash)
          /\ savedSSID' # "" =>
               (bootConnects' = 1 /\ event' \in {"connect_ok", "connect_fail"})]_vars

\* C20: the boot after the restart has connected with the pair just saved.
C20_Witness ==
  /\ pc = "send_check" /\ caller = "setup" /\ event = "connect_ok"
  /\ Cached = [ssid |-> "Home", password |-> "secret1"]
  /\ loadWiFiConfig(flash) = Cached
  /\ bootConnects = 1 /\ lastAttempt = << >>

\* ------------------------------------------------ the sketch kept running
\* A step of the sketch itself: setup(), or the next part of loop().
SketchStep == Setup \/ HandleClient \/ RestOfLoop

\* A device of one build at power-on, with or without a stored pair.
InitLive ==
  /\ pc = "setup"
  /\ caller = "setup"
  /\ millis = 0
  /\ compileTime = "Nov  1 2025 10:00:00"
  /\ flash \in {markAsBooted(NoFlash, compileTime),
                markAsBooted(saveWiFiConfig(NoFlash, "Home", "secret1"),
                             compileTime)}
  /\ savedSSID = ""
  /\ savedPassword = ""
  /\ configMode = FALSE
  /\ lastUploadSucceeded = TRUE
  /\ lastUploadTime = 0
  /\ successfulUploads = 0
  /\ wifiMode = "OFF"
  /\ softAP = NoAP
  /\ link = FALSE
  /\ routes = << >>
  /\ serverBegun = FALSE
  /\ pending = NoRequest
  /\ response = NoResponse
  /\ event = "boot"
  /\ bootConnects = 0
  /\ lastAttempt = << >>
  /\ bus = << >>
  /\ temperature = << >>
  /\ attemptTime = << >>

\* The sketch, and the faults and requests that reach it: sensor faults and
\* failed uploads are choices of the sketch's own steps, link drops and
\* requests are the environment's.  Nobody cuts the power.
NextLive == SketchStep \/ Arrive \/ LinkDrop \/ LinkUp

\* The Arduino core calls setup() once and then loop() again and again, and
\* every blocking call (connect attempt, GET, delay) returns: whenever the
\* sketch has a next step it takes it.
SpecLive == InitLive /\ [][NextLive]_vars /\ WF_vars(SketchStep)

\* The longest the clock moves between two calls of timerDone: an idle run of
\* 60 s and a reconnect that succeeds at its last poll.
MaxLateness == 600 * DelayTicks + 60 * PollTicks
\* The longest the clock moves in one iteration of loop(): two connect
\* attempts that time out (lines 142 and 597) and an idle run of 60 s.
MaxIteration == 2 * 61 * PollTicks + 600 * DelayTicks

\* An Operating device has finished an upload attempt, early enough in the
\* part of the session followed for the next one to fall due within it.
AttemptDone ==
  /\ pc \notin {"setup", "send_check", "send_get"}
  /\ ~configMode
  /\ lastAttempt # << >>
  /\ lastUploadTime + ActiveInterval(lastUploadSucceeded) * TicksPerSecond
       + MaxLateness <= MaxMillis
\* The next call of sendDataToWeb has begun, or the device is no longer
\* Operating in this session.
NextAttempt == pc = "send_check" \/ configMode \/ pc = "setup"

ConnectStarts ==
  {Sub32(0, j * PollTicks + o) : j \in 0..MaxStartPolls, o \in {0, 1, DelayTicks}}

\* An Operating device that has uploaded, at the link check of loop() with
\* the link down.
InitConnect ==
  /\ pc = "loop_link"
  /\ caller = "loop"
  /\ millis \in ConnectStarts
  /\ lastUploadTime = Sub32(millis, DelayTicks)
  /\ flash = markAsBooted(saveWiFiConfig(NoFlash, "Home", "secret1"),
                          "Nov  1 2025 10:00:00")
  /\ compileTime = "Nov  1 2025 10:00:00"
  /\ savedSSID = "Home"
  /\ savedPassword = "secret1"
  /\ configMode = FALSE
  /\ lastUploadSucceeded = TRUE
  /\ successfulUploads = 1
  /\ wifiMode = "STA"
  /\ softAP = NoAP
  /\ link = FALSE
  /\ routes = StatusRoutes
  /\ serverBegun = TRUE
  /\ pending = NoRequest
  /\ response = NoResponse
  /\ event = "none"
  /\ bootConnects = 1
  /\ lastAttempt = << HTTP_CODE_OK >>
  /\ bus = << >>
  /\ temperature = << >>
  /\ attemptTime = << lastUploadTime >>

\* Lines 140-148 with the link down: connectToWiFi(), the radio reporting
\* connected at any poll up to MaxPolls, and the fallback when it fails.
ConnectCall ==
  /\ pc = "loop_link"
  /\ ~link
  /\ \E upAt \in 0..MaxPolls :
       LET r == connectToWiFi(millis, upAt)
       IN  /\ millis' = r.now
           /\ IF r.connected
                THEN /\ wifiMode' = "STA"
                     /\ link' = TRUE
                     /\ pc' = "loop_timer"
                     /\ event' = "connect_ok"
                     /\ UNCHANGED << configMode, softAP, routes, serverBegun >>
                ELSE /\ startAPMode
                     /\ configMode' = TRUE
                     /\ pc' = "loop_top"
                     /\ event' = "connect_fail"
  /\ response' = NoResponse
  /\ UNCHANGED << caller, flash, compileTime, savedSSID, savedPassword,
                  lastUploadSucceeded, lastUploadTime, successfulUploads,
                  pending, bootConnects, lastAttempt, bus, temperature,
                  attemptTime >>

NextConnect == ConnectCall

SpecConnect == InitConnect /\ [][NextConnect]_vars

\* C22: a connect attempt begun at any time of the clock returns: true, and
\* at the poll at which the radio reports connected, when that is within the
\* 30 s; else false, at the first poll made more than 30 s after the
\* attempt began, the times being differences modulo the clock's range.
C22_ConnectTerminates ==
  /\ [](pc = "loop_link" =>
          \A upAt \in 0..MaxPolls :
            LET r == connectToWiFi(millis, upAt)
                elapsed == Sub32(r.now, millis)
            IN  IF upAt * PollTicks <= WIFI_TIMEOUT * TicksPerSecond
                  THEN r.connected /\ elapsed = upAt * PollTicks
                  ELSE /\ ~r.connected
                       /\ elapsed > WIFI_TIMEOUT * TicksPerSecond
                       /\ elapsed - PollTicks <= WIFI_TIMEOUT * TicksPerSecond)
  /\ [][(pc = "loop_link" /\ pc' # "loop_link") =>
          LET elapsed == Sub32(millis', millis)
          IN  /\ event' \in {"connect_ok", "connect_fail"}
              /\ event' = "connect_ok" =>
                   (link' /\ ~configMode'
                    /\ elapsed <= WIFI_TIMEOUT * TicksPerSecond)
              /\ event' = "connect_fail" =>
                   (configMode' /\ AccessPointUp'
                    /\ elapsed = WIFI_TIMEOUT * TicksPerSecond + PollTicks)]_vars

\* C22: an attempt begun 10 s before the clock wrapped has timed out 20.5 s
\* after the wrap.
C22_Witness ==
  /\ event = "connect_fail" /\ configMode
  /\ millis = (WIFI_TIMEOUT * TicksPerSecond + PollTicks) - 20 * PollTicks
  /\ lastUploadTime = ClockMod - 20 * PollTicks - DelayTicks

\* C23: in configuration mode the sketch is at the top of loop(); every
\* step that does not restart the device keeps it there with configMode
\* true and makes no connect attempt, no link check and no upload (the
\* radio, the clock, the counters and the schedule are as before); and a
\* restart is the one of handleSave accepting a POST /save, the one of
\* handleConfirmReset, or a power cycle (a reflash included).
C23_ConfigModeAbsorbing ==
  [][configMode =>
       /\ pc = "loop_top"
       /\ pc' # "setup" =>
            /\ configMode' /\ pc' = "loop_top"
            /\ event' \in {event, "none"}
            /\ UNCHANGED << bootConnects, lastAttempt, attemptTime, bus,
                            temperature, millis, wifiMode, softAP, link,
                            lastUploadSucceeded, lastUploadTime,
                            successfulUploads, flash >>
       /\ pc' = "setup" =>
            \/ SaveStep
            \/ ClearStep
            \/ response' = NoResponse /\ flash' = flash]_vars

\* C23: a device fallen back at run time, after an upload, has served a
\* request and is still in configuration mode, the radio an access point.
C23_Witness ==
  /\ pc = "loop_top" /\ configMode /\ AccessPointUp
  /\ lastAttempt # << >> /\ routes = StatusRoutes \o APRoutes
  /\ response.code = 200 /\ pending = NoRequest

\* C24: the wifi-config namespace of the flash changes only in handleSave,
\* in handleConfirmReset and in a boot that finds another build's marker (or
\* none); connect attempts that time out, the fallback, uploads, restarts and
\* power cycles leave it as it is; and a boot of the same build loads the
\* stored pair, whatever happened in the session before, and makes its
\* connect attempt with it when the network name is not empty.
C24_CredentialsFrame ==
  [][/\ flash'["wifi-config"] # flash["wifi-config"] =>
          \/ SaveStep
          \/ ClearStep
          \/ BootStep /\ StoredMarker(flash) # compileTime
     /\ (event' = "connect_fail" \/ GetStep \/ (pc' = "setup" /\ ~SaveStep /\ ~ClearStep)) =>
          flash' = flash
     /\ (BootStep /\ StoredMarker(flash) = compileTime) =>
          /\ flash' = flash
          /\ savedSSID' = getString(flash, "wifi-config", "ssid", "")
          /\ savedPassword' = getString(flash, "wifi-config", "password", "")
          /\ savedSSID' # "" => bootConnects' = 1]_vars

\* C24: a device that had uploaded has fallen back to configuration mode
\* after a reconnect that timed out, the pair still in flash.
C24_Witness ==
  /\ pc = "loop_top" /\ configMode /\ event = "connect_fail"
  /\ routes = StatusRoutes \o APRoutes /\ lastAttempt # << >>
  /\ pending = NoRequest
  /\ flash["wifi-config"] = [k \in {"ssid", "password"} |->
                               IF k = "ssid" THEN "Home" ELSE "secret1"]

\* C25: on a status page served by an Operating device, the seconds until
\* the next upload are at most the active interval in seconds.
C25_SecondsUntilNextBounded ==
  (response.page = "status" /\ ~configMode) =>
    response.next <= ActiveInterval(lastUploadSucceeded)

====
